---- MODULE Spec2Model ----
(***************************************************************************)
(* A model of ctile (src/main.go): a read-through caching proxy for the    *)
(* get-entries endpoint of a Certificate Transparency log.  Requests are   *)
(* handled by tileCachingHandler.ServeHTTP; tiles are resolved through a   *)
(* singleflight group, an S3 bucket and the upstream CT log.               *)
(*                                                                         *)
(* Strings are modelled as sequences of tokens (a token is a TLA+ string), *)
(* so concatenation is \o and "contains" is membership of a token.         *)
(* Go's int64 is modelled by a two's complement integer of IntBits bits.   *)
(***************************************************************************)
EXTENDS Integers, Sequences, FiniteSets, TLC

\* ---------------------------------------------------------------- bounds
\* tch.tileSize, the configured tile size of the instance.
TileSize == 2
\* The upstream log grows from empty to at most MaxLog entries.
MaxLog == 3
\* The number of HTTP requests of a behaviour (all may be in flight at once).
NumReq == 2
\* The width of the model's stand-in for int64.
IntBits == 4
\* Tile sizes from 1 to MaxSize are given to the functions that are applied on their own.
MaxSize == 3

Req == 1..NumReq

\* ------------------------------------------------------------ int64 (scaled)
MaxInt == 2^(IntBits - 1) - 1
MinInt == -(2^(IntBits - 1))
Ints == MinInt..MaxInt
\* Two's complement wrap-around of a result of + or - on the machine integer.
Wrap(x) == ((x - MinInt) % (2^IntBits)) + MinInt

Min(a, b) == IF a <= b THEN a ELSE b

\* The decimal texts of an integer: its digits, with "-" before a negative one and
\* optionally "+" before one that is not negative.
Decimals(n) == IF n >= 0 THEN {ToString(n), "+" \o ToString(n)} ELSE {ToString(n)}

\* strconv.ParseInt(s, 10, 64): the machine integer whose decimal text is s;
\* an error for text that is no decimal integer or is out of range.
ParseInt(s) ==
    IF \E n \in Ints : s \in Decimals(n)
    THEN [ok |-> TRUE, val |-> CHOOSE n \in Ints : s \in Decimals(n)]
    ELSE [ok |-> FALSE, val |-> 0]

\* ------------------------------------------------------------ configuration
logURL == <<"http://log">>
s3Prefix == <<"pfx/">>

\* ------------------------------------------------------------------ errors
\* A Go error: kind is the dynamic type that errors.As / errors.Is find in the
\* chain, msg the text of Error(), status and body the fields of a statusCodeError.
NoBody == <<>>
nilErr == [kind |-> "nil", status |-> 0, body |-> NoBody, msg |-> <<>>]
newError(text) == [kind |-> "plain", status |-> 0, body |-> NoBody, msg |-> text]
\* A wrapping that keeps the text and loses the chain, as %s in place of %w does.
wrapLosingChain(prefix, e) ==
    [kind |-> "plain", status |-> 0, body |-> NoBody, msg |-> prefix \o e.msg]
\* fmt.Errorf("<prefix>%w", e): the text is prefixed, the chain is kept.
wrapW(prefix, e) == [e EXCEPT !.msg = prefix \o e.msg]
\* fmt.Errorf("<prefix>%s", e): the text is prefixed, the chain is lost.
wrapS(prefix, e) == newError(prefix \o e.msg)

pastTheEndError ==
    [kind |-> "pastTheEnd", status |-> 0, body |-> NoBody,
     msg |-> <<"requested range is past the end of the log">>]

statusCodeError(statusCode, body) ==
    [kind |-> "statusCode", status |-> statusCode, body |-> body,
     msg |-> <<"backend responded with status code ", ToString(statusCode),
               " and body:\n">> \o body]

noSuchKey == [kind |-> "noSuchKey", status |-> 0, body |-> NoBody, msg |-> <<"no such key">>]

internalInconsistency == newError(<<"internal inconsistency">>)

\* ------------------------------------------------------------ parseQueryParams
\* A parser that does not compare end with start.
parseQueryParamsUnordered(start, end) ==
    IF start = "" \/ end = "" \/ ~ParseInt(start).ok \/ ~ParseInt(end).ok
       \/ ParseInt(start).val < 0 \/ ParseInt(end).val < 0
    THEN [err |-> newError(<<"invalid parameter">>), start |-> 0, end |-> 0]
    ELSE [err |-> nilErr, start |-> ParseInt(start).val, end |-> Wrap(ParseInt(end).val + 1)]
\* values.Get(name) is "" for a parameter that is absent.
parseQueryParams(start, end) ==
    LET s == ParseInt(start)
        e == ParseInt(end)
    IN  IF start = "" THEN [err |-> newError(<<"missing start parameter">>), start |-> 0, end |-> 0]
        ELSE IF end = "" THEN [err |-> newError(<<"missing end parameter">>), start |-> 0, end |-> 0]
        ELSE IF ~s.ok \/ s.val < 0
             THEN [err |-> newError(<<"invalid start parameter">>), start |-> 0, end |-> 0]
        ELSE IF ~e.ok \/ e.val < 0
             THEN [err |-> newError(<<"invalid end parameter">>), start |-> 0, end |-> 0]
        ELSE IF e.val < s.val
             THEN [err |-> newError(<<"end must be greater than or equal to start">>),
                   start |-> 0, end |-> 0]
        ELSE [err |-> nilErr, start |-> s.val, end |-> Wrap(e.val + 1)]

\* ------------------------------------------------------------------- tiles
\* tile{start, end, size, logURL}: the half-open interval [start, end).
makeTile(start, size, url) ==
    LET tileOffset == start % size
        tileStart == start - tileOffset
    IN  [start |-> tileStart, end |-> Wrap(tileStart + size), size |-> size, logURL |-> url]

\* tile.key(): "tile_size=%d/%d.cbor.gz"
key(t) == <<"tile_size=", ToString(t.size), "/", ToString(t.start), ".cbor.gz">>

\* tile.url(): the query sent to the backend, a closed interval.
url(t) == [base |-> t.logURL \o <<"/ct/v1/get-entries">>, start |-> t.start, end |-> Wrap(t.end - 1)]

\* The singleflight key of getAndCacheTile: "logURL-%s-tile-%d-%d".
dedupKey(t) == <<"logURL-">> \o t.logURL \o <<"-tile-", ToString(t.start), "-", ToString(t.end)>>

\* ----------------------------------------------------------------- entries
\* The entry of the (append-only) log at a position: both byte strings are
\* determined by the position, so an entry names where it came from.
entry(pos) == [leaf_input |-> pos, extra_data |-> pos]

\* entries{Entries: ...} holding the log's entries at positions from .. from+n-1.
logEntries(from, n) == [i \in 1..n |-> entry(from + i - 1)]

\* The result of a function returning (*entries, error).
Ret(es, e) == [entries |-> es, err |-> e]

\* A trimForDisplay that tests for a range past the end of the entries first.
trimForDisplayPastEndFirst(e, start, end, t) ==
    IF start - t.start >= Len(e)
    THEN [entries |-> <<>>, err |-> pastTheEndError]
    ELSE IF start < t.start \/ start >= t.end \/ end <= start \/ Len(e) > t.size
    THEN [entries |-> <<>>, err |-> internalInconsistency]
    ELSE [entries |-> SubSeq(e, (start - t.start) + 1, Min(end - t.start, Len(e))),
          err |-> nilErr]
\* entries.trimForDisplay(start, end, tile): the entries of the tile that answer a
\* request for [start, end).  A slice expression out of range panics.
trimForDisplay(e, start, end, t) ==
    IF start < t.start \/ start >= t.end \/ end <= start \/ Len(e) > t.size
    THEN Ret(<<>>, internalInconsistency)
    ELSE LET prefixToRemove == Wrap(start - t.start)
             asked == Wrap(end - start)
             requestedLen == IF Wrap(prefixToRemove + asked) > Len(e)
                             THEN Len(e) - prefixToRemove
                             ELSE asked
             hi == Wrap(prefixToRemove + requestedLen)
         IN  IF prefixToRemove >= Len(e)
             THEN Ret(<<>>, pastTheEndError)
             ELSE IF prefixToRemove < 0 \/ hi < prefixToRemove \/ hi > Len(e)
             THEN Ret(<<>>, [newError(<<"panic: slice bounds out of range">>) EXCEPT !.kind = "panic"])
             ELSE Ret(SubSeq(e, prefixToRemove + 1, hi), nilErr)

\* A trim that re-slices the receiver's own list: the receiver is left holding the
\* trimmed entries.
trimInPlace(e, start, end, t) ==
    IF trimForDisplay(e, start, end, t).err.kind = "nil"
    THEN trimForDisplay(e, start, end, t).entries
    ELSE e
\* The receiver of trimForDisplay after the call: the method reads e.Entries and
\* returns a new entries value, or an error; it assigns nothing to the receiver.
afterTrimForDisplay(e, start, end, t) == e

\* A test for partial tiles that a full tile meets as well.
isPartialTileOrFull(contents) == Len(contents) <= TileSize
\* A test for partial tiles that no tile meets.
isPartialTileNever(contents) == Len(contents) < 0
\* isPartialTile: fewer entries than the handler's tile size.
isPartialTile(contents) == Len(contents) < TileSize

\* ------------------------------------------------------------------- codec
\* The body of a stored tile: gzip(cbor({entries: [...]})).
cborGzEncode(e) == [gzip |-> [cbor |-> [entries |-> e]]]
\* A decoder that reads leaf_input and drops extra_data.
cborGzDecodeLossy(body) ==
    [i \in DOMAIN body.gzip.cbor.entries |->
        [leaf_input |-> body.gzip.cbor.entries[i].leaf_input, extra_data |-> -1]]
cborGzDecode(body) == body.gzip.cbor.entries
\* The JSON document of the get-entries protocol.
jsonEncode(e) == [json |-> [entries |-> e]]
jsonDecode(body) == body.json.entries

\* ---------------------------------------------------------------- upstream
\* What the CT log may answer to a backend request: a transport failure, or an HTTP
\* response with a status and a body; text is the body as text, and for a body that
\* is a JSON get-entries document (json = TRUE) entries is what it decodes to.
netErr == [newError(<<"connection failed">>) EXCEPT !.kind = "net"]
\* The error of a call made on a context that is cancelled or past its deadline.
ctxErr == [newError(<<"context canceled">>) EXCEPT !.kind = "net"]
\* The error of a call whose transport failed: "err" by itself, "ctx" by its context.
transportErr(transport) == IF transport = "ctx" THEN ctxErr ELSE netErr
httpReply(status, text) ==
    [net |-> "ok", status |-> status, text |-> text, json |-> FALSE, entries |-> <<>>]
jsonReply(status, es) ==
    [net |-> "ok", status |-> status, text |-> <<"{entries}">>, json |-> TRUE, entries |-> es]
netFailure == [net |-> "err", status |-> 0, text |-> <<>>, json |-> FALSE, entries |-> <<>>]
ctxFailure == [net |-> "ctx", status |-> 0, text |-> <<>>, json |-> FALSE, entries |-> <<>>]
pastEndBody == <<"oh no! we fell off the end of the log!">>
unavailableBody == <<"upstream unavailable">>
notFoundBody == <<"404 page not found">>

\* The answers of a log of logSize entries to get-entries?start=&end= (closed
\* interval): 400 past the end, else the entries from start, at most up to end and
\* up to the end of the log; a server may return fewer entries than asked for.
logReplies(u, logSize) ==
    IF u.start < 0 \/ u.start >= logSize \/ u.end < u.start
    THEN {httpReply(400, pastEndBody)}
    ELSE {jsonReply(200, logEntries(u.start, n)) :
             n \in 1..(Min(u.end, logSize - 1) - u.start + 1)}

\* Answers of a failing or misbehaving backend: no connection, a 5xx, a 200 with no
\* entries, a 200 with more entries than asked for.
faultyReplies(u) ==
    {netFailure, httpReply(500, unavailableBody), jsonReply(200, <<>>)}
    \cup (IF u.end >= u.start THEN {jsonReply(200, logEntries(u.start, (u.end - u.start) + 2))}
          ELSE {})

\* A fetch that takes whatever number of entries the backend's document holds.
getTileFromBackendUnchecked(t, reply) ==
    IF reply.net # "ok" THEN [entries |-> <<>>, err |-> transportErr(reply.net)]
    ELSE IF reply.status # 200
    THEN [entries |-> <<>>, err |-> statusCodeError(reply.status, reply.text)]
    ELSE IF ~reply.json THEN [entries |-> <<>>, err |-> newError(<<"invalid JSON">>)]
    ELSE [entries |-> reply.entries, err |-> nilErr]
\* getTileFromBackend(ctx, t) given the backend's answer to t.url().
getTileFromBackend(t, reply) ==
    IF reply.net # "ok"
    THEN Ret(<<>>, wrapW(<<"fetching ">> \o url(t).base \o <<": ">>, transportErr(reply.net)))
    ELSE IF reply.status # 200
    THEN Ret(<<>>, statusCodeError(reply.status, reply.text))
    ELSE IF ~reply.json
    THEN Ret(<<>>, newError(<<"reading body from ">> \o url(t).base \o <<": invalid JSON">>))
    ELSE IF Len(reply.entries) > t.size \/ Len(reply.entries) = 0
    THEN Ret(<<>>, newError(<<"expected ", ToString(t.size), " entries, got ",
                               ToString(Len(reply.entries))>>))
    ELSE Ret(reply.entries, nilErr)

\* ---------------------------------------------------------------------- S3
\* The bucket is a function from the keys it holds to the bodies stored under them.
s3Key(t) == s3Prefix \o key(t)

\* A lookup that never finds the object.
getFromS3Miss(bucket, t, transport) == [entries |-> <<>>, err |-> noSuchKey]
\* A lookup that takes every failure of GetObject for a missing key.
getFromS3ErrAsMiss(bucket, t, transport) ==
    IF transport # "ok" \/ (s3Prefix \o key(t)) \notin DOMAIN bucket
    THEN [entries |-> <<>>, err |-> noSuchKey]
    ELSE [entries |-> bucket[s3Prefix \o key(t)].gzip.cbor.entries, err |-> nilErr]
\* A lookup that takes an object of a wrong number of entries for a missing key.
getFromS3CorruptAsMiss(bucket, t, transport) ==
    IF transport # "ok"
    THEN [entries |-> <<>>, err |-> [newError(<<"getting from bucket">>) EXCEPT !.kind = "net"]]
    ELSE IF (s3Prefix \o key(t)) \notin DOMAIN bucket
            \/ Len(bucket[s3Prefix \o key(t)].gzip.cbor.entries) # t.size
    THEN [entries |-> <<>>, err |-> noSuchKey]
    ELSE [entries |-> bucket[s3Prefix \o key(t)].gzip.cbor.entries, err |-> nilErr]
\* A lookup that returns the stored entries whatever their number.
getFromS3Unchecked(bucket, t, transport) ==
    IF transport # "ok"
    THEN [entries |-> <<>>, err |-> [newError(<<"getting from bucket">>) EXCEPT !.kind = "net"]]
    ELSE IF (s3Prefix \o key(t)) \notin DOMAIN bucket
    THEN [entries |-> <<>>, err |-> noSuchKey]
    ELSE [entries |-> bucket[s3Prefix \o key(t)].gzip.cbor.entries, err |-> nilErr]
\* getFromS3(ctx, t) on a bucket; transport is "ok", or "err" or "ctx" (GetObject
\* failed with something other than NoSuchKey: by itself, or by its context).
getFromS3(bucket, t, transport) ==
    IF transport # "ok"
    THEN Ret(<<>>, wrapW(<<"getting from bucket: ">>, transportErr(transport)))
    ELSE IF s3Key(t) \notin DOMAIN bucket
    THEN Ret(<<>>, noSuchKey)
    ELSE LET es == cborGzDecode(bucket[s3Key(t)])
         IN  IF Len(es) # t.size \/ t.end # Wrap(t.start + t.size)
             THEN Ret(<<>>, internalInconsistency)
             ELSE Ret(es, nilErr)

\* writeToS3(ctx, t, e): the error returned and the bucket afterwards; issued tells
\* whether PutObject was called.  encoder is "ok" or "err" (the CBOR encoder
\* returned an error: the function then returns nil without calling PutObject);
\* transport is "ok", or "err" or "ctx" (PutObject failed, by itself or by its
\* context).
writeToS3(bucket, t, e, encoder, transport) ==
    IF Len(e) # t.size \/ t.end # Wrap(t.start + t.size)
    THEN [err |-> internalInconsistency, bucket |-> bucket, issued |-> FALSE]
    ELSE IF encoder = "err"
    THEN [err |-> nilErr, bucket |-> bucket, issued |-> FALSE]
    ELSE IF transport # "ok"
    THEN [err |-> wrapS(<<"putting in bucket: ">>, transportErr(transport)),
          bucket |-> bucket, issued |-> TRUE]
    ELSE [err |-> nilErr, issued |-> TRUE,
          bucket |-> [k \in DOMAIN bucket \cup {s3Key(t)} |->
                         IF k = s3Key(t) THEN cborGzEncode(e) ELSE bucket[k]]]

\* ----------------------------------------------------------------- metrics
\* ctile_requests{result, source}
Labels == {<<"success", "s3_get">>, <<"success", "ct_log_get">>,
           <<"error", "s3_get">>, <<"error", "ct_log_get">>, <<"error", "s3_put">>,
           <<"bad_request", "ct_log_get">>,
           <<"bad_request", "past_the_end_partial_tile">>,
           <<"error", "internal_inconsistency">>}
\* A counter that counts two for one.
IncTwice(m, l) == [m EXCEPT ![l] = @ + 2]
Inc(m, l) == [m EXCEPT ![l] = @ + 1]

\* ------------------------------------------------------------ HTTP responses
\* A response: the status written, the headers the handler sets ("" when unset), a
\* text body or the entries of a JSON body, and whether the error was logged.
\* status 0 stands for a handler that has not answered.
noResp == [status |-> 0, xSource |-> "", xPartial |-> "", xLen |-> "",
           text |-> <<>>, entries |-> <<>>, logged |-> FALSE]
textResp(status, text) == [noResp EXCEPT !.status = status, !.text = text]

\* A label for the CT log that is the label of S3.
sourceMislabelled == "S3"
\* tileSource
sourceCTLog == "CT log"
sourceS3 == "S3"

\* A header that gives the tile size for the length of the response.
xResponseLenOfTile(contents) == ToString(TileSize)
\* The X-Response-Len header: fmt.Sprintf("%d", len(contents.Entries)) of the
\* trimmed entries.
xResponseLen(contents) == ToString(Len(contents))

\* A handler that counts the error of the resolver once more for each request that
\* it answers with the error.
serveTileCountingErrors(start, end, t, res, m) ==
    IF res.err.kind # "nil"
    THEN [resp |-> [textResp(IF res.err.kind = "statusCode" THEN res.err.status ELSE 500,
                             res.err.msg \o <<"\n">>)
                       EXCEPT !.logged = ~(res.err.kind = "statusCode" /\ res.err.status = 400)],
          metric |-> Inc(m, IF res.source = "S3" THEN <<"error", "s3_get">>
                            ELSE <<"error", "ct_log_get">>)]
    ELSE LET trimmed == trimForDisplay(res.entries, start, end, t)
             hdr == [noResp EXCEPT !.xPartial = IF Len(res.entries) < TileSize THEN "true" ELSE "",
                                   !.xSource = res.source]
         IN  IF trimmed.err.kind # "nil"
             THEN [resp |-> [hdr EXCEPT !.status = 400, !.text = trimmed.err.msg \o <<"\n">>],
                   metric |-> IF trimmed.err.kind = "pastTheEnd"
                              THEN Inc(m, <<"bad_request", "past_the_end_partial_tile">>)
                              ELSE Inc(m, <<"error", "internal_inconsistency">>)]
             ELSE [resp |-> [hdr EXCEPT !.status = 200,
                                        !.xLen = ToString(Len(trimmed.entries)),
                                        !.entries = trimmed.entries],
                   metric |-> IF res.source = "S3" THEN Inc(m, <<"success", "s3_get">>)
                              ELSE Inc(m, <<"success", "ct_log_get">>)]
\* ServeHTTP from the return of getAndCacheTile on: the response written and the
\* requests metric afterwards, given the request's parsed range, its tile and
\* what getAndCacheTile returned (res: entries, source, err).
serveTile(start, end, t, res, m) ==
    IF res.err.kind # "nil"
    THEN LET status == IF res.err.kind = "statusCode" THEN res.err.status ELSE 500
         IN  [resp |-> [textResp(status, res.err.msg \o <<"\n">>) EXCEPT
                           !.logged = (status # 400)],
              metric |-> m]
    ELSE LET hdr == [noResp EXCEPT
                        !.xPartial = IF isPartialTile(res.entries) THEN "true" ELSE "",
                        !.xSource = res.source]
             trimmed == trimForDisplay(res.entries, start, end, t)
         IN  IF trimmed.err.kind = "panic"
             THEN [resp |-> [hdr EXCEPT !.status = -1, !.text = trimmed.err.msg], metric |-> m]
             ELSE IF trimmed.err.kind # "nil"
             THEN [resp |-> [hdr EXCEPT !.status = 400, !.text = trimmed.err.msg \o <<"\n">>],
                   metric |-> IF trimmed.err.kind = "pastTheEnd"
                              THEN Inc(m, <<"bad_request", "past_the_end_partial_tile">>)
                              ELSE Inc(m, <<"error", "internal_inconsistency">>)]
             ELSE [resp |-> [hdr EXCEPT !.status = 200,
                                        !.xLen = xResponseLen(trimmed.entries),
                                        !.entries = trimmed.entries],
                   metric |-> IF hdr.xSource = "S3"
                              THEN Inc(m, <<"success", "s3_get">>)
                              ELSE Inc(m, <<"success", "ct_log_get">>)]

\* The URL that passthroughHandler asks the backend for: logURL and the request's
\* path, without the query.
passthroughURL(path) == logURL \o path

\* A handler that answers 200 whatever the backend's status.
passthroughAlwaysOK(method, reply) ==
    IF method # "GET" THEN textResp(405, <<"only GET is supported", "\n">>)
    ELSE textResp(200, reply.text)
\* passthroughHandler.ServeHTTP given the backend's answer.
passthrough(method, reply) ==
    IF method # "GET" THEN textResp(405, <<"only GET is supported", "\n">>)
    ELSE IF reply.net = "err"
    THEN textResp(500, <<"fetching ">> \o logURL \o <<": ">> \o netErr.msg \o <<"\n">>)
    ELSE textResp(reply.status, reply.text)

\* strings.HasSuffix on a path given by its segments.
HasSuffix(p, suffix) ==
    Len(p) >= Len(suffix) /\ SubSeq(p, Len(p) - Len(suffix) + 1, Len(p)) = suffix
getEntriesPath == <<"ct", "v1", "get-entries">>

\* ------------------------------------------------------------------- state
VARIABLES
    logLen,              \* the number of entries of the upstream log
    bucket,              \* the S3 bucket: key -> stored body
    group,               \* tch.cacheGroup: singleflight key -> the call in flight
    calls,               \* the singleflight calls, named by the request that runs them
    pc,                  \* where each request's goroutine is
    rq,                  \* each request as received: method, path, query
    loc,                 \* each handler's locals: parsed range, tile, call, result
    ctxDone,             \* whether the request's context is cancelled or past its deadline
    resp,                \* the response written to each request
    requestsMetric,      \* tch.requestsMetric
    partialTiles,        \* tch.partialTiles
    singleFlightShared,  \* tch.singleFlightShared
    hist,                \* per request: the backend operations its goroutine issued
    fn                   \* a function applied on its own: its name, arguments, result

vars == <<logLen, bucket, group, calls, pc, rq, loc, ctxDone, resp,
          requestsMetric, partialTiles, singleFlightShared, hist, fn>>

noTile == [start |-> 0, end |-> 0, size |-> 0, logURL |-> <<>>]
\* A function applied on its own: its name, its arguments, whether it has returned,
\* and what it returned: out for (*entries, error), tile for a tile, url for the URL
\* of a tile, parsed for (start, end, error).
noFn == [op |-> "", args |-> <<>>, done |-> FALSE, out |-> [entries |-> <<>>, err |-> nilErr],
         tile |-> noTile, url |-> [base |-> <<>>, start |-> 0, end |-> 0],
         parsed |-> [err |-> nilErr, start |-> 0, end |-> 0]]
\* What getAndCacheTileUncollapsed returns: (*entries, tileSource, error).
Res(es, source, e) == [entries |-> es, source |-> source, err |-> e]
noRes == Res(<<>>, "", nilErr)
noCall == [dups |-> 0, done |-> FALSE, val |-> noRes]
\* The history of a request: how many GetObject, backend and PutObject calls its
\* goroutine made; at its entry into getAndCacheTile, the requests that were running
\* a resolution of its tile (during), whether the bucket lacked the tile (absent) and
\* the requests that had been answered (prior); what the bucket answered to its GetObject
\* (s3: "err", "absent" or "present"); the status and body of the backend's answer
\* and the number of entries of a valid one (fetched); how its writeToS3 ended
\* (put: "stored", "err", or "unencoded" when the encoder failed) and whether its
\* PutObject succeeded (stored); whether its context was done while it was blocked
\* in the wait for a call that was not done (blocked); how many requests
\* passthroughHandler sent to the backend for it (forwards) and the URL of the
\* request last sent to the backend for it (upURL); the number of entries that the
\* object returned by its GetObject decodes to (s3Len) and the number of entries of
\* the JSON document of a 200 answer of the backend (upLen), -1 when there is none.
noHist == [gets |-> 0, fetches |-> 0, puts |-> 0, entered |-> FALSE, during |-> {},
           absent |-> FALSE, prior |-> {}, s3 |-> "", upStatus |-> 0, upText |-> <<>>,
           fetched |-> -1, put |-> "", stored |-> FALSE, blocked |-> FALSE,
           forwards |-> 0, upURL |-> <<>>, s3Len |-> -1, upLen |-> -1]

\* The requests a client may send: a method, a path (its segments) and the texts of
\* the query's start and end ("" for a parameter that is absent).
Request(method, path, start, end) ==
    [method |-> method, path |-> path, start |-> start, end |-> end]
noRequest == Request("", <<>>, "", "")
\* Ranges inside and past the log, of one entry and reaching far past the tile,
\* and ranges that end at the largest integer.
goodQueries ==
    {<<ToString(a), ToString(a)>> : a \in 0..MaxLog}
    \cup {<<ToString(a), ToString(MaxInt - 1)>> : a \in 0..MaxLog}
    \cup {<<"0", "1">>, <<"+1", "1">>, <<"1", ToString(MaxInt)>>,
          <<ToString(MaxInt), ToString(MaxInt)>>}
badQueries == {<<"", "0">>, <<"0", "">>, <<"a", "0">>, <<"0", "a">>, <<"-1", "0">>,
               <<"0", "-1">>, <<"1", "0">>,
               <<ToString(MaxInt + 1), ToString(MaxInt + 1)>>}
tileRequests ==
    {Request("GET", <<"ct", "v1", "get-entries">>, q[1], q[2]) : q \in goodQueries \cup badQueries}
    \cup {Request("POST", <<"ctile", "ct", "v1", "get-entries">>, "0", "0")}
otherRequests ==
    {Request(m, <<"ct", "v1", "get-sth">>, "", "") : m \in {"GET", "POST"}}
Requests == tileRequests \cup otherRequests

\* The handler as newTileCachingHandler makes it, no request having arrived.
HandlerInit ==
    /\ logLen = 0
    /\ group = <<>>
    /\ calls = [r \in Req |-> noCall]
    /\ pc = [r \in Req |-> "new"]
    /\ rq = [r \in Req |-> noRequest]
    /\ loc = [r \in Req |-> [start |-> 0, end |-> 0, tile |-> noTile, call |-> 0, res |-> noRes]]
    /\ ctxDone = [r \in Req |-> FALSE]
    /\ resp = [r \in Req |-> noResp]
    /\ requestsMetric = [l \in Labels |-> 0]
    /\ partialTiles = 0
    /\ singleFlightShared = 0
    /\ hist = [r \in Req |-> noHist]

\* The instance starts on an empty bucket.
MainInit == HandlerInit /\ bucket = <<>>

Init == MainInit /\ fn = noFn

\* Buckets that hold, under the key of the second tile, an object that decodes to a
\* number of entries other than the tile size: one entry short, or one too many.
corruptBuckets ==
    {[k \in {s3Key(makeTile(TileSize, TileSize, logURL))} |->
         cborGzEncode(logEntries(TileSize, n))] :
        n \in {TileSize - 1, TileSize + 1}}

\* The instance starts on a bucket that holds such an object.
InitCorrupt == HandlerInit /\ bucket \in corruptBuckets /\ fn = noFn

\* Requests are numbered in the order in which they arrive.
arrives(r) == pc[r] = "new" /\ \A o \in 1..(r - 1) : pc[o] # "new"
received(r, q) == rq' = [rq EXCEPT ![r] = q]

\* The other requests whose goroutine is running a resolution of tile t.
resolving(r, t) ==
    {o \in Req \ {r} : pc[o] \in {"s3get", "fetch", "put", "ret"} /\ loc[o].tile = t}

enters(r, t) ==
    [hist[r] EXCEPT !.entered = TRUE,
                    !.during = resolving(r, t),
                    !.absent = s3Key(t) \notin DOMAIN bucket,
                    !.prior = {o \in Req : pc[o] = "done"}]

\* A group that never finds a call in flight: no request is collapsed.
noCallInFlight(k) == 0
\* singleflight.Group.Do, under the group's lock: the call in flight for the key, or
\* 0 when there is none and the caller is to run the function itself.
callInFlight(k) == IF k \in DOMAIN group THEN group[k] ELSE 0

\* ServeHTTP for a path that is not get-entries: handed to passthroughHandler.
Passthrough(r) ==
    /\ arrives(r)
    /\ \E q \in Requests,
          reply \in {netFailure, httpReply(404, notFoundBody), httpReply(200, <<"sth">>)} :
          /\ ~HasSuffix(q.path, getEntriesPath)
          /\ received(r, q)
          /\ resp' = [resp EXCEPT ![r] = passthrough(q.method, reply)]
          /\ hist' = IF q.method # "GET" THEN hist
                     ELSE [hist EXCEPT ![r] = [@ EXCEPT !.forwards = @ + 1,
                                                        !.upURL = passthroughURL(q.path),
                                                        !.upStatus = reply.status,
                                                        !.upText = reply.text]]
    /\ pc' = [pc EXCEPT ![r] = "done"]
    /\ UNCHANGED <<logLen, bucket, group, calls, loc, ctxDone, requestsMetric,
                   partialTiles, singleFlightShared, fn>>

\* ServeHTTP for a get-entries request whose query does not parse: 400.
BadQuery(r) ==
    /\ arrives(r)
    /\ \E q \in Requests :
          LET parsed == parseQueryParams(q.start, q.end)
          IN  /\ HasSuffix(q.path, getEntriesPath)
              /\ parsed.err.kind # "nil"
              /\ received(r, q)
              /\ resp' = [resp EXCEPT ![r] = textResp(400, parsed.err.msg \o <<"\n">>)]
    /\ pc' = [pc EXCEPT ![r] = "done"]
    /\ UNCHANGED <<logLen, bucket, group, calls, loc, ctxDone, requestsMetric,
                   partialTiles, singleFlightShared, hist, fn>>

\* ServeHTTP up to getAndCacheTile and singleflight's Do, no call being in flight
\* for the tile's key: the request registers a call and goes on to run the function.
Lead(r) ==
    /\ arrives(r)
    /\ \E q \in Requests :
          LET parsed == parseQueryParams(q.start, q.end)
              t == makeTile(parsed.start, TileSize, logURL)
          IN  /\ HasSuffix(q.path, getEntriesPath)
              /\ parsed.err.kind = "nil"
              /\ callInFlight(dedupKey(t)) = 0
              /\ received(r, q)
              /\ group' = [k \in DOMAIN group \cup {dedupKey(t)} |->
                              IF k = dedupKey(t) THEN r ELSE group[k]]
              /\ loc' = [loc EXCEPT ![r] = [start |-> parsed.start, end |-> parsed.end,
                                            tile |-> t, call |-> r, res |-> noRes]]
              /\ hist' = [hist EXCEPT ![r] = enters(r, t)]
    /\ pc' = [pc EXCEPT ![r] = "s3get"]
    /\ UNCHANGED <<logLen, bucket, calls, ctxDone, resp, requestsMetric,
                   partialTiles, singleFlightShared, fn>>

\* ServeHTTP up to singleflight's Do, a call being in flight for the tile's key: the
\* request is counted as a duplicate of the call and waits for it.
Join(r) ==
    /\ arrives(r)
    /\ \E q \in Requests :
          LET parsed == parseQueryParams(q.start, q.end)
              t == makeTile(parsed.start, TileSize, logURL)
              c == callInFlight(dedupKey(t))
          IN  /\ HasSuffix(q.path, getEntriesPath)
              /\ parsed.err.kind = "nil"
              /\ c # 0
              /\ received(r, q)
              /\ calls' = [calls EXCEPT ![c].dups = @ + 1]
              /\ loc' = [loc EXCEPT ![r] = [start |-> parsed.start, end |-> parsed.end,
                                            tile |-> t, call |-> c, res |-> noRes]]
              /\ hist' = [hist EXCEPT ![r] = enters(r, t)]
    /\ pc' = [pc EXCEPT ![r] = "wait"]
    /\ UNCHANGED <<logLen, bucket, group, ctxDone, resp, requestsMetric,
                   partialTiles, singleFlightShared, fn>>

\* A call on a cancelled context fails; otherwise the transport may fail or not.
transports(r) == IF ctxDone[r] THEN {"ctx"} ELSE {"ok", "err"}

\* getAndCacheTileUncollapsed, first part: the tile is looked up in S3.
S3Get(r) ==
    /\ pc[r] = "s3get"
    /\ \E transport \in transports(r) :
          LET got == getFromS3(bucket, loc[r].tile, transport)
          IN  /\ hist' = [hist EXCEPT ![r] = [@ EXCEPT
                             !.gets = @ + 1,
                             !.s3 = IF transport # "ok" THEN "err"
                                    ELSE IF s3Key(loc[r].tile) \in DOMAIN bucket THEN "present"
                                    ELSE "absent",
                             !.s3Len = IF transport = "ok" /\ s3Key(loc[r].tile) \in DOMAIN bucket
                                       THEN Len(cborGzDecode(bucket[s3Key(loc[r].tile)]))
                                       ELSE -1]]
              /\ IF got.err.kind = "nil"
                 THEN /\ loc' = [loc EXCEPT ![r].res = Res(got.entries, sourceS3, nilErr)]
                      /\ pc' = [pc EXCEPT ![r] = "ret"]
                      /\ UNCHANGED requestsMetric
                 ELSE IF got.err.kind # "noSuchKey"
                 THEN /\ requestsMetric' = Inc(requestsMetric, <<"error", "s3_get">>)
                      /\ loc' = [loc EXCEPT ![r].res =
                                    Res(<<>>, sourceS3,
                                        wrapW(<<"error reading tile from s3: ">>, got.err))]
                      /\ pc' = [pc EXCEPT ![r] = "ret"]
                 ELSE /\ pc' = [pc EXCEPT ![r] = "fetch"]
                      /\ UNCHANGED <<loc, requestsMetric>>
    /\ UNCHANGED <<logLen, bucket, group, calls, rq, ctxDone, resp,
                   partialTiles, singleFlightShared, fn>>

\* What the backend may answer to a request's fetch.
replies(r) ==
    IF ctxDone[r] THEN {ctxFailure}
    ELSE logReplies(url(loc[r].tile), logLen) \cup faultyReplies(url(loc[r].tile))

\* getAndCacheTileUncollapsed, second part: the tile is fetched from the CT log; a
\* partial tile is returned without being written.
Fetch(r) ==
    /\ pc[r] = "fetch"
    /\ \E reply \in replies(r) :
          LET got == getTileFromBackend(loc[r].tile, reply)
          IN  /\ hist' = [hist EXCEPT ![r] = [@ EXCEPT
                             !.fetches = @ + 1,
                             !.upURL = url(loc[r].tile),
                             !.upStatus = reply.status,
                             !.upText = reply.text,
                             !.upLen = IF reply.net = "ok" /\ reply.status = 200 /\ reply.json
                                       THEN Len(reply.entries)
                                       ELSE -1,
                             !.fetched = IF reply.net = "ok" /\ reply.status = 200 /\ reply.json
                                            /\ Len(reply.entries) \in 1..loc[r].tile.size
                                         THEN Len(reply.entries)
                                         ELSE -1]]
              /\ IF got.err.kind # "nil"
                 THEN /\ requestsMetric' =
                            IF got.err.kind = "statusCode" /\ got.err.status = 400
                            THEN Inc(requestsMetric, <<"bad_request", "ct_log_get">>)
                            ELSE Inc(requestsMetric, <<"error", "ct_log_get">>)
                      /\ loc' = [loc EXCEPT ![r].res =
                                    Res(<<>>, sourceCTLog,
                                        wrapW(<<"error reading tile from backend: ">>, got.err))]
                      /\ pc' = [pc EXCEPT ![r] = "ret"]
                      /\ UNCHANGED partialTiles
                 ELSE IF isPartialTile(got.entries)
                 THEN /\ partialTiles' = partialTiles + 1
                      /\ loc' = [loc EXCEPT ![r].res = Res(got.entries, sourceCTLog, nilErr)]
                      /\ pc' = [pc EXCEPT ![r] = "ret"]
                      /\ UNCHANGED requestsMetric
                 ELSE /\ loc' = [loc EXCEPT ![r].res = Res(got.entries, sourceCTLog, nilErr)]
                      /\ pc' = [pc EXCEPT ![r] = "put"]
                      /\ UNCHANGED <<requestsMetric, partialTiles>>
    /\ UNCHANGED <<logLen, bucket, group, calls, rq, ctxDone, resp, singleFlightShared, fn>>

\* getAndCacheTileUncollapsed, third part: the full tile is written to S3.
S3Put(r) ==
    /\ pc[r] = "put"
    /\ \E encoder \in {"ok", "err"}, transport \in transports(r) :
          LET put == writeToS3(bucket, loc[r].tile, loc[r].res.entries, encoder, transport)
          IN  /\ bucket' = put.bucket
              /\ hist' = [hist EXCEPT ![r] = [@ EXCEPT
                             !.puts = IF put.issued THEN @ + 1 ELSE @,
                             !.put = IF encoder = "err" THEN "unencoded"
                                     ELSE IF put.err.kind = "nil" THEN "stored" ELSE "err",
                             !.stored = (put.issued /\ put.err.kind = "nil")]]
              /\ IF put.err.kind # "nil"
                 THEN /\ requestsMetric' = Inc(requestsMetric, <<"error", "s3_put">>)
                      /\ loc' = [loc EXCEPT ![r].res =
                                    Res(<<>>, sourceCTLog,
                                        wrapW(<<"error writing tile to S3: ">>, put.err))]
                 ELSE UNCHANGED <<loc, requestsMetric>>
    /\ pc' = [pc EXCEPT ![r] = "ret"]
    /\ UNCHANGED <<logLen, group, calls, rq, ctxDone, resp, partialTiles, singleFlightShared, fn>>

\* A group that keeps the call under its key when the call is done.
keepCall(g, k, r) == g
\* singleflight, the function of call r having returned: the key is deleted from the
\* group if it still names the call.
forget(g, k, r) ==
    IF k \in DOMAIN g /\ g[k] = r THEN [j \in DOMAIN g \ {k} |-> g[j]] ELSE g

\* The function has returned: singleflight publishes the result to the call's
\* waiters and forgets the key; Do returns to getAndCacheTile, which counts a shared
\* result, and ServeHTTP answers the request.  The call's val is the entries value
\* that the callers share, as ServeHTTP's trimForDisplay leaves it.
Complete(r) ==
    /\ pc[r] = "ret"
    /\ LET k == dedupKey(loc[r].tile)
           served == serveTile(loc[r].start, loc[r].end, loc[r].tile, loc[r].res,
                               requestsMetric)
           shared == IF loc[r].res.err.kind = "nil"
                     THEN [loc[r].res EXCEPT !.entries =
                              afterTrimForDisplay(@, loc[r].start, loc[r].end, loc[r].tile)]
                     ELSE loc[r].res
       IN  /\ calls' = [calls EXCEPT ![r].done = TRUE, ![r].val = shared]
           /\ group' = forget(group, k, r)
           /\ singleFlightShared' = IF calls[r].dups > 0 THEN singleFlightShared + 1
                                    ELSE singleFlightShared
           /\ resp' = [resp EXCEPT ![r] = served.resp]
           /\ requestsMetric' = served.metric
    /\ pc' = [pc EXCEPT ![r] = "done"]
    /\ UNCHANGED <<logLen, bucket, rq, loc, ctxDone, partialTiles, hist, fn>>

\* A wait that is never over: the waiters of a call are not woken.
callDoneNever(c) == FALSE
\* A wait that is over at once.
callDoneAtOnce(c) == TRUE
\* singleflight's wait of a duplicate caller: it is over when the call is done.
callDone(c) == calls[c].done

\* A waiter's Do returns the result of the call it joined, as shared, once the call
\* is done; getAndCacheTile counts it and ServeHTTP answers the request.
Receive(r) ==
    /\ pc[r] = "wait"
    /\ callDone(loc[r].call)
    /\ LET res == calls[loc[r].call].val
           served == serveTile(loc[r].start, loc[r].end, loc[r].tile, res, requestsMetric)
       IN  /\ loc' = [loc EXCEPT ![r].res = res]
           /\ calls' = IF res.err.kind = "nil"
                       THEN [calls EXCEPT ![loc[r].call].val.entries =
                                afterTrimForDisplay(@, loc[r].start, loc[r].end, loc[r].tile)]
                       ELSE calls
           /\ singleFlightShared' = singleFlightShared + 1
           /\ resp' = [resp EXCEPT ![r] = served.resp]
           /\ requestsMetric' = served.metric
    /\ pc' = [pc EXCEPT ![r] = "done"]
    /\ UNCHANGED <<logLen, bucket, group, rq, ctxDone, partialTiles, hist, fn>>

\* The client goes away or fullRequestTimeout passes while the request is handled.
CtxDone(r) ==
    /\ pc[r] \in {"s3get", "fetch", "put", "wait"}
    /\ ~ctxDone[r]
    /\ ctxDone' = [ctxDone EXCEPT ![r] = TRUE]
    /\ hist' = [hist EXCEPT ![r].blocked = (pc[r] = "wait" /\ ~calls[loc[r].call].done)]
    /\ UNCHANGED <<logLen, bucket, group, calls, pc, rq, loc, resp, requestsMetric,
                   partialTiles, singleFlightShared, fn>>

\* The log sequences one more entry.
LogGrows ==
    /\ logLen < MaxLog
    /\ logLen' = logLen + 1
    /\ UNCHANGED <<bucket, group, calls, pc, rq, loc, ctxDone, resp, requestsMetric,
                   partialTiles, singleFlightShared, hist, fn>>

Next ==
    \/ \E r \in Req : Passthrough(r)
    \/ \E r \in Req : BadQuery(r)
    \/ \E r \in Req : Lead(r)
    \/ \E r \in Req : Join(r)
    \/ \E r \in Req : S3Get(r)
    \/ \E r \in Req : Fetch(r)
    \/ \E r \in Req : S3Put(r)
    \/ \E r \in Req : Complete(r)
    \/ \E r \in Req : Receive(r)
    \/ \E r \in Req : CtxDone(r)
    \/ LogGrows

Spec == Init /\ [][Next]_vars

\* Every backend operation is called with the request's context, whose deadline is
\* fullRequestTimeout, so it returns, with an answer or with the context's error;
\* a goroutine that can take its next step takes it.
Fairness ==
    \A r \in Req :
        /\ WF_vars(S3Get(r)) /\ WF_vars(Fetch(r)) /\ WF_vars(S3Put(r))
        /\ WF_vars(Complete(r)) /\ WF_vars(Receive(r))

FairSpec == Init /\ [][Next]_vars /\ Fairness

\* The instance on a bucket that holds an object of a wrong number of entries.
SpecCorrupt == InitCorrupt /\ [][Next]_vars

\* ------------------------------------------------- functions on their own
\* trimForDisplay applied to the first n entries of the tile that holds tileStart
\* (the first tile, the second, or the last one below the largest integer), for a
\* request of the half-open range [start, end).
trimCalls ==
    {[noFn EXCEPT !.op = "trimForDisplay", !.args = <<n, tileStart, start, end>>] :
        n \in 0..(TileSize + 1), tileStart \in {0, TileSize, MaxInt - (MaxInt % TileSize)},
        start \in Ints, end \in Ints}

\* makeTile applied to a start that is not negative and a size above 0.
makeTileCalls ==
    {[noFn EXCEPT !.op = "makeTile", !.args = <<start, size>>] :
        start \in 0..MaxInt, size \in 1..MaxSize}

\* tile.url applied to the tile that makeTile gives for a start and a size.
urlCalls ==
    {[noFn EXCEPT !.op = "url", !.args = <<start, size>>] :
        start \in 0..MaxInt, size \in 1..MaxSize}

\* parseQueryParams applied to a query whose start and end are decimal texts of the
\* integers a and b, in and just out of the range of the machine integer.
parseCalls ==
    {[noFn EXCEPT !.op = "parseQueryParams", !.args = <<s, e, a, b>>] :
        <<s, e, a, b>> \in {q \in {"-1", "0", "1", "+1", ToString(MaxInt - 1), ToString(MaxInt),
                                   ToString(MaxInt + 1)}
                                  \X {"-1", "0", "1", ToString(MaxInt - 1), ToString(MaxInt),
                                      ToString(MaxInt + 1)}
                                  \X ((-1)..(MaxInt + 1)) \X ((-1)..(MaxInt + 1)) :
                                q[1] \in Decimals(q[3]) /\ q[2] \in Decimals(q[4])}}

InitFn == MainInit /\ fn \in trimCalls \cup makeTileCalls \cup urlCalls \cup parseCalls

ApplyTrim ==
    /\ fn.op = "trimForDisplay"
    /\ ~fn.done
    /\ LET t == makeTile(fn.args[2], TileSize, logURL)
       IN  fn' = [fn EXCEPT !.done = TRUE,
                            !.out = trimForDisplay(logEntries(t.start, fn.args[1]),
                                                   fn.args[3], fn.args[4], t)]
    /\ UNCHANGED <<logLen, bucket, group, calls, pc, rq, loc, ctxDone, resp,
                   requestsMetric, partialTiles, singleFlightShared, hist>>

ApplyMakeTile ==
    /\ fn.op = "makeTile"
    /\ ~fn.done
    /\ fn' = [fn EXCEPT !.done = TRUE, !.tile = makeTile(fn.args[1], fn.args[2], logURL)]
    /\ UNCHANGED <<logLen, bucket, group, calls, pc, rq, loc, ctxDone, resp,
                   requestsMetric, partialTiles, singleFlightShared, hist>>

ApplyURL ==
    /\ fn.op = "url"
    /\ ~fn.done
    /\ fn' = [fn EXCEPT !.done = TRUE,
                        !.tile = makeTile(fn.args[1], fn.args[2], logURL),
                        !.url = url(makeTile(fn.args[1], fn.args[2], logURL))]
    /\ UNCHANGED <<logLen, bucket, group, calls, pc, rq, loc, ctxDone, resp,
                   requestsMetric, partialTiles, singleFlightShared, hist>>

ApplyParse ==
    /\ fn.op = "parseQueryParams"
    /\ ~fn.done
    /\ fn' = [fn EXCEPT !.done = TRUE, !.parsed = parseQueryParams(fn.args[1], fn.args[2])]
    /\ UNCHANGED <<logLen, bucket, group, calls, pc, rq, loc, ctxDone, resp,
                   requestsMetric, partialTiles, singleFlightShared, hist>>

NextFn == ApplyTrim \/ ApplyMakeTile \/ ApplyURL \/ ApplyParse

SpecFn == InitFn /\ [][NextFn]_vars

\* ------------------------------------------------------------------ claims
\* C1 as stated: when requests for a tile that is absent from the bucket enter
\* getAndCacheTile while one resolution of it is in flight, exactly one upstream
\* fetch and at most one PutObject are issued for the tile by all of them.
C1_ExactlyOneFetch ==
    \A l \in Req :
        LET G == {l} \cup {w \in Req : l \in hist[w].during /\ hist[w].absent}
        IN  (/\ hist[l].entered /\ hist[l].during = {} /\ hist[l].absent
             /\ G # {l}
             /\ \A r \in G : pc[r] = "done")
            => /\ \A r \in G : hist[r].fetches <= 1 /\ hist[r].puts <= 1
               /\ Cardinality({r \in G : hist[r].fetches = 1}) = 1
               /\ Cardinality({r \in G : hist[r].puts = 1}) <= 1

\* C1, amended: a request that enters while a resolution of its tile is in flight
\* joins that one resolution and issues no GetObject, fetch or PutObject itself; a
\* resolution issues at most one fetch and at most one PutObject: exactly one fetch
\* when its GetObject reports the tile absent, none when its GetObject fails.
C1_OneResolution ==
    \A r \in Req :
        /\ hist[r].gets <= 1 /\ hist[r].fetches <= 1 /\ hist[r].puts <= 1
        /\ hist[r].during # {}
              => /\ hist[r].gets = 0 /\ hist[r].fetches = 0 /\ hist[r].puts = 0
                 /\ hist[r].during = {loc[r].call}
        /\ (hist[r].s3 = "absent" /\ pc[r] \in {"put", "ret", "done"}) => hist[r].fetches = 1
        /\ hist[r].s3 = "err" => hist[r].fetches = 0 /\ hist[r].puts = 0

C1_Collapsed ==
    \E l, w \in Req :
        /\ pc[l] = "done" /\ pc[w] = "done"
        /\ hist[w].during = {l} /\ hist[w].absent
        /\ hist[l].s3 = "absent" /\ hist[l].fetches = 1 /\ hist[l].puts = 1
        /\ hist[w].fetches = 0
        /\ resp[w].status = 200

\* C2: the callers that share one call of the singleflight group all receive what
\* the call returned: the same entries and source, or the same error; a waiter
\* returns only once the call is done, and an error is answered alike to all.
C2_SharedOutcome ==
    \A w \in Req :
        (pc[w] = "done" /\ hist[w].entered /\ loc[w].call # w)
        => LET l == loc[w].call
           IN  /\ calls[l].done
               /\ loc[l].tile = loc[w].tile
               /\ loc[w].res = loc[l].res
               /\ loc[w].res = calls[l].val
               /\ pc[l] = "done"
                     => /\ resp[w].xSource = resp[l].xSource
                        /\ resp[w].xPartial = resp[l].xPartial
                        /\ loc[w].res.err.kind # "nil" => resp[w] = resp[l]

C2_SharedTile ==
    \E l, w \in Req :
        /\ l # w /\ pc[w] = "done" /\ loc[w].call = l
        /\ loc[w].res.err.kind = "nil"
        /\ Len(loc[w].res.entries) = TileSize
        /\ loc[w].res.source = "CT log"
        /\ rq[w] # rq[l]
        /\ resp[w].status = 200 /\ resp[l].status = 200

\* C3: every object of the bucket holds exactly TileSize entries; a PutObject is
\* issued only after the upstream returned exactly TileSize entries; an upstream
\* result of 1 .. TileSize-1 entries is returned with source CT log and without a
\* PutObject, and the client is answered with X-Source CT log.
C3_NoPartialStored ==
    /\ \A k \in DOMAIN bucket : Len(bucket[k].gzip.cbor.entries) = TileSize
    /\ \A r \in Req :
          /\ hist[r].puts > 0 => hist[r].fetched = TileSize
          /\ hist[r].fetched \in 1..(TileSize - 1)
                => /\ hist[r].puts = 0
                   /\ pc[r] \in {"ret", "done"}
                   /\ loc[r].res = Res(logEntries(loc[r].tile.start, hist[r].fetched),
                                       "CT log", nilErr)
                   /\ pc[r] = "done"
                         => resp[r].xSource = "CT log" /\ resp[r].xPartial = "true"

C3_PartialServed ==
    \E r \in Req :
        /\ pc[r] = "done"
        /\ hist[r].fetched \in 1..(TileSize - 1)
        /\ hist[r].puts = 0
        /\ s3Key(loc[r].tile) \notin DOMAIN bucket
        /\ resp[r].status = 200 /\ resp[r].xSource = "CT log"

\* C4 as stated: of two identical requests that were both answered from a partial
\* tile, each caused an upstream fetch and each was answered with X-Source CT log.
C4_EachRequestFetches ==
    \A r1, r2 \in Req :
        (/\ r1 # r2 /\ rq[r1] = rq[r2]
         /\ pc[r1] = "done" /\ pc[r2] = "done"
         /\ resp[r1].status = 200 /\ resp[r1].xPartial = "true"
         /\ resp[r2].status = 200 /\ resp[r2].xPartial = "true")
        => /\ hist[r1].fetches = 1 /\ hist[r2].fetches = 1
           /\ resp[r1].xSource = "CT log" /\ resp[r2].xSource = "CT log"

\* C4, amended: when a request was answered from a partial tile that the upstream
\* returned to it, an identical request that enters after that answer, while no
\* resolution of the tile is in flight and no other request has stored the tile,
\* finds the tile absent and, unless its GetObject fails, fetches from the upstream
\* again; each of the two to which the upstream returned a partial tile is answered
\* with X-Source CT log.
C4_PartialNotCached ==
    \A r1, r2 \in Req :
        (/\ r1 \in hist[r2].prior /\ rq[r1] = rq[r2]
         /\ hist[r1].fetched \in 1..(TileSize - 1)
         /\ hist[r2].entered /\ hist[r2].during = {}
         /\ \A o \in Req \ {r1, r2} : loc[o].tile = loc[r2].tile => ~hist[o].stored)
        => /\ hist[r2].absent
           /\ hist[r1].fetches = 1
           /\ resp[r1].xSource = "CT log"
           /\ (pc[r2] = "done" /\ hist[r2].s3 # "err") => hist[r2].fetches = 1
           /\ (pc[r2] = "done" /\ hist[r2].fetched \in 1..(TileSize - 1))
                 => resp[r2].xSource = "CT log"

C4_TwoPartialFetches ==
    \E r1, r2 \in Req :
        /\ r1 \in hist[r2].prior /\ rq[r1] = rq[r2]
        /\ pc[r2] = "done"
        /\ resp[r1].status = 200 /\ resp[r1].xPartial = "true"
        /\ resp[r2].status = 200 /\ resp[r2].xPartial = "true"
        /\ hist[r1].fetches = 1 /\ hist[r2].fetches = 1

\* C5 as stated: a request that enters getAndCacheTile when its tile is in the bucket
\* is answered with X-Source S3 and no upstream fetch is issued for it.
C5_AlwaysFromS3 ==
    \A r \in Req :
        (pc[r] = "done" /\ hist[r].entered /\ ~hist[r].absent)
        => resp[r].xSource = "S3" /\ hist[r].fetches = 0

\* C5, amended: for a request that enters getAndCacheTile when its tile is in the
\* bucket no upstream fetch and no PutObject is issued; when it runs its own
\* resolution and its GetObject does not fail it is served the stored tile with
\* X-Source S3.
C5_StoredTileServed ==
    \A r \in Req :
        (hist[r].entered /\ ~hist[r].absent)
        => /\ hist[r].fetches = 0 /\ hist[r].puts = 0
           /\ s3Key(loc[r].tile) \in DOMAIN bucket
           /\ (pc[r] = "done" /\ hist[r].during = {} /\ hist[r].s3 # "err")
                 => /\ hist[r].s3 = "present"
                    /\ resp[r].xSource = "S3"
                    /\ loc[r].res = Res(bucket[s3Key(loc[r].tile)].gzip.cbor.entries,
                                        "S3", nilErr)

C5_LaterRequestFromS3 ==
    \E r, o \in Req :
        /\ pc[r] = "done" /\ o \in hist[r].prior
        /\ hist[o].stored /\ loc[o].tile = loc[r].tile /\ rq[o] # rq[r]
        /\ ~hist[r].absent
        /\ resp[r].status = 200 /\ resp[r].xSource = "S3" /\ hist[r].fetches = 0

\* What ServeHTTP answers to request r when getAndCacheTileUncollapsed finds r's tile
\* in the bucket as it is now.
servedFromS3(r) ==
    serveTile(loc[r].start, loc[r].end, loc[r].tile,
              Res(getFromS3(bucket, loc[r].tile, "ok").entries, sourceS3, nilErr),
              requestsMetric).resp

\* The client's closed range as numbers.
asked(r) == [start |-> ParseInt(rq[r].start).val, end |-> ParseInt(rq[r].end).val]

\* C6 as stated: every 200 response to get-entries?start=s&end=e holds exactly the
\* log's entries at s .. s+k-1 in order (1 <= k <= e-s+1, all entries of the log),
\* and it is the response that is given to the same (s, e) from the tile in S3.
C6_SameFromEitherSource ==
    \A r \in Req :
        (pc[r] = "done" /\ hist[r].entered /\ resp[r].status = 200)
        => /\ Len(resp[r].entries) \in 1..((asked(r).end - asked(r).start) + 1)
           /\ asked(r).start + Len(resp[r].entries) <= logLen
           /\ resp[r].entries = logEntries(asked(r).start, Len(resp[r].entries))
           /\ s3Key(loc[r].tile) \in DOMAIN bucket
                 => /\ servedFromS3(r).status = 200
                    /\ servedFromS3(r).entries = resp[r].entries

\* C6, amended: every 200 response holds exactly the log's entries at s .. s+k-1;
\* a response made from a full tile, fetched from the CT log or read from S3, is the
\* response given to the same (s, e) from the tile in S3; a response made from a
\* partial tile is a prefix of it.
C6_Transparent ==
    \A r \in Req :
        (pc[r] = "done" /\ hist[r].entered /\ resp[r].status = 200)
        => /\ Len(resp[r].entries) \in 1..((asked(r).end - asked(r).start) + 1)
           /\ asked(r).start + Len(resp[r].entries) <= logLen
           /\ resp[r].entries = logEntries(asked(r).start, Len(resp[r].entries))
           /\ resp[r].xSource \in {"CT log", "S3"}
           /\ s3Key(loc[r].tile) \in DOMAIN bucket
                 => /\ servedFromS3(r).status = 200
                    /\ resp[r].xPartial = ""
                          => servedFromS3(r).entries = resp[r].entries
                    /\ resp[r].xPartial = "true"
                          => /\ resp[r].xSource = "CT log"
                             /\ Len(resp[r].entries) <= Len(servedFromS3(r).entries)
                             /\ resp[r].entries =
                                   SubSeq(servedFromS3(r).entries, 1, Len(resp[r].entries))

C6_BothSources ==
    \E r, o \in Req :
        /\ pc[r] = "done" /\ pc[o] = "done" /\ rq[r] = rq[o]
        /\ resp[r].status = 200 /\ resp[r].xSource = "CT log" /\ resp[r].xPartial = ""
        /\ resp[o].status = 200 /\ resp[o].xSource = "S3"
        /\ Len(resp[r].entries) = TileSize
        /\ resp[o].entries = resp[r].entries

\* C7 as stated: for a request of the closed range [start, end] with start in the
\* tile and a tile of L entries with start - tileStart < L, the response holds
\* exactly min(end - start + 1, L - (start - tileStart)) entries, those from offset
\* start - tileStart on; the count is at least 1 and at most
\* min(end - start + 1, size - (start mod size)).
C7_TrimCount ==
    \A r \in Req :
        LET t == loc[r].tile
            e == loc[r].res.entries
            prefix == asked(r).start - t.start
            want == (asked(r).end - asked(r).start) + 1
            count == Min(want, Len(e) - prefix)
        IN  (/\ pc[r] = "done" /\ hist[r].entered /\ loc[r].res.err.kind = "nil"
             /\ t.start <= asked(r).start /\ asked(r).start < t.start + t.size
             /\ prefix < Len(e))
            => /\ resp[r].status = 200
               /\ resp[r].entries = SubSeq(e, prefix + 1, prefix + count)
               /\ count >= 1
               /\ count <= Min(want, t.size - (asked(r).start % t.size))

\* C8 as stated: when start lies in the tile and start - tileStart >= len(entries),
\* the response is 400 with a body that contains "requested range is past the end of
\* the log" and no entries, and ctile_requests{bad_request,
\* past_the_end_partial_tile} is incremented once for each such request.
C8_PastTheEnd ==
    LET past == {r \in Req :
                    /\ pc[r] = "done" /\ hist[r].entered /\ loc[r].res.err.kind = "nil"
                    /\ loc[r].tile.start <= asked(r).start
                    /\ asked(r).start < loc[r].tile.start + loc[r].tile.size
                    /\ asked(r).start - loc[r].tile.start >= Len(loc[r].res.entries)}
    IN  /\ \A r \in past :
              /\ resp[r].status = 400
              /\ \E i \in DOMAIN resp[r].text :
                    resp[r].text[i] = "requested range is past the end of the log"
              /\ resp[r].entries = <<>>
        /\ requestsMetric[<<"bad_request", "past_the_end_partial_tile">>] = Cardinality(past)

C10_GetErrorIsNoMiss ==
    /\ \A r \in Req :
          hist[r].s3 = "err"
          => /\ hist[r].gets = 1 /\ hist[r].fetches = 0 /\ hist[r].puts = 0
             /\ pc[r] \in {"ret", "done"}
             /\ loc[r].res.err.kind # "nil" /\ loc[r].res.entries = <<>>
             /\ \A w \in Req : (pc[w] = "done" /\ hist[w].entered /\ loc[w].call = r)
                                  => resp[w].status = 500 /\ resp[w].entries = <<>>
    /\ requestsMetric[<<"error", "s3_get">>] = Cardinality({r \in Req : hist[r].s3 = "err"})

C10_GetFailed ==
    \E r, w \in Req :
        /\ r # w /\ pc[r] = "done" /\ pc[w] = "done"
        /\ hist[r].s3 = "err" /\ ~ctxDone[r]
        /\ hist[w].during = {r}
        /\ resp[r].status = 500 /\ resp[w].status = 500
        /\ requestsMetric[<<"error", "s3_get">>] = 1

\* C11 as stated: when the upstream returned exactly TileSize entries and writeToS3
\* did not store them, the resolver returns an error with no entries, ctile_requests
\* {error, s3_put} counts one for each such resolution, and every request that shares
\* it is answered with a 5xx; a result of (full tile, CT log, no error) implies that
\* the resolution stored the tile.
C11_WriteFailureIsError ==
    LET unwritten == {r \in Req : /\ hist[r].fetched = TileSize
                                  /\ pc[r] \in {"ret", "done"}
                                  /\ hist[r].put # "stored"}
    IN  /\ \A r \in unwritten :
              /\ loc[r].res.err.kind # "nil" /\ loc[r].res.entries = <<>>
              /\ \A w \in Req : (pc[w] = "done" /\ hist[w].entered /\ loc[w].call = r)
                                   => resp[w].status \in 500..599
        /\ requestsMetric[<<"error", "s3_put">>] = Cardinality(unwritten)
        /\ \A r \in Req :
              (/\ pc[r] \in {"ret", "done"} /\ hist[r].entered /\ loc[r].call = r
               /\ loc[r].res.err.kind = "nil" /\ loc[r].res.source = "CT log"
               /\ Len(loc[r].res.entries) = TileSize)
              => hist[r].stored /\ s3Key(loc[r].tile) \in DOMAIN bucket

\* For each text of a query, the integers it is a decimal text of, in or out of the
\* range of the machine integer: none for a text that is no decimal integer.
decimalValue ==
    [s \in {q.start : q \in Requests} \cup {q.end : q \in Requests} |->
        {n \in (-(2^IntBits))..(2^IntBits) : s \in Decimals(n)}]

\* C12: a get-entries request whose start or end is missing, is no decimal integer,
\* is negative, or whose end is less than its start is answered 400 with a text body,
\* and its goroutine never enters getAndCacheTile: no GetObject, no fetch, no
\* PutObject is issued for it.
C12_MalformedRejected ==
    \A r \in Req :
        (/\ pc[r] # "new"
         /\ HasSuffix(rq[r].path, getEntriesPath)
         /\ \/ rq[r].start = "" \/ rq[r].end = ""
            \/ decimalValue[rq[r].start] = {} \/ decimalValue[rq[r].end] = {}
            \/ \E a \in decimalValue[rq[r].start] : a < 0
            \/ \E b \in decimalValue[rq[r].end] : b < 0
            \/ \E a \in decimalValue[rq[r].start], b \in decimalValue[rq[r].end] : b < a)
        => /\ pc[r] = "done"
           /\ resp[r].status = 400
           /\ resp[r].text # <<>> /\ resp[r].entries = <<>>
           /\ hist[r] = noHist
           /\ loc[r].call = 0

C12_RejectedQueries ==
    \E r, o \in Req :
        /\ pc[r] = "done" /\ pc[o] = "done"
        /\ rq[r].start = "1" /\ rq[r].end = "0" /\ resp[r].status = 400
        /\ rq[o].start = "0" /\ rq[o].end = "a" /\ resp[o].status = 400
        /\ bucket = <<>>

\* C13 as stated: the cancellation of one caller's context, the first caller's
\* included, does not cancel the call in flight: a caller that shares the call and
\* whose own context is not done never receives the error of a cancelled context.
C13_CancelLeavesOthers ==
    \A w \in Req :
        (pc[w] = "done" /\ hist[w].entered /\ loc[w].call # w /\ ~ctxDone[w])
        => \A i \in DOMAIN loc[w].res.err.msg : loc[w].res.err.msg[i] # "context canceled"

\* C14 as stated: a caller whose context is done while it is blocked on another
\* caller's call, the call not being done, returns with the error of its own context
\* and not with the result of the call.
C14_WaiterReturnsEarly ==
    \A w \in Req :
        (pc[w] = "done" /\ hist[w].blocked)
        => /\ loc[w].res.err.kind # "nil"
           /\ \E i \in DOMAIN loc[w].res.err.msg : loc[w].res.err.msg[i] = "context canceled"
           /\ resp[w].status # 200

\* C15: the group holds a key only while the function of its call runs; a request
\* never joins a call that was done when it entered, so a request that enters after
\* a resolution of its tile has finished runs a resolution of its own, with a
\* GetObject of its own, and an earlier result, error or not, is not handed to it.
C15_NoResultKept ==
    /\ \A k \in DOMAIN group :
          /\ pc[group[k]] \in {"s3get", "fetch", "put", "ret"}
          /\ ~calls[group[k]].done
          /\ dedupKey(loc[group[k]].tile) = k
    /\ \A r \in Req :
          hist[r].entered
          => /\ loc[r].call \notin hist[r].prior
             /\ hist[r].during = {} => loc[r].call = r
             /\ (loc[r].call = r /\ pc[r] \in {"fetch", "put", "ret", "done"})
                   => hist[r].gets = 1
             /\ \A l \in hist[r].prior : loc[l].tile = loc[r].tile => loc[r].call # loc[l].call

C15_ErrorNotReplayed ==
    \E l, r \in Req :
        /\ pc[r] = "done" /\ l \in hist[r].prior
        /\ rq[l] = rq[r] /\ hist[l].entered
        /\ loc[l].res.err.kind # "nil" /\ resp[l].status = 500
        /\ hist[r].gets = 1 /\ loc[r].call = r
        /\ resp[r].status = 200

\* C16: on every 200 response of the get-entries handler, X-Response-Len is the
\* decimal text of the number of entries of the body, which is the number of entries
\* left by trimForDisplay and not the number of entries of the tile.
C16_ResponseLen ==
    \A r \in Req :
        (pc[r] = "done" /\ hist[r].entered /\ resp[r].status = 200)
        => /\ resp[r].xLen = ToString(Len(resp[r].entries))
           /\ resp[r].entries =
                 trimForDisplay(loc[r].res.entries, loc[r].start, loc[r].end, loc[r].tile).entries
           /\ Len(resp[r].entries) <= Len(loc[r].res.entries)

C16_ShorterThanTile ==
    \E r \in Req :
        /\ pc[r] = "done" /\ resp[r].status = 200
        /\ Len(loc[r].res.entries) = TileSize
        /\ Len(resp[r].entries) = 1 /\ resp[r].xLen = "1"

\* C17: a response of the get-entries handler carries X-Partial-Tile: true exactly
\* when the resolver returned a tile of fewer than TileSize entries; a response made
\* from a full tile, and an error response, do not carry the header.
C17_PartialHeader ==
    \A r \in Req :
        /\ (pc[r] = "done" /\ hist[r].entered)
              => (resp[r].xPartial = "true"
                    <=> (loc[r].res.err.kind = "nil" /\ Len(loc[r].res.entries) < TileSize))
        /\ resp[r].xPartial \in {"", "true"}
        /\ ~hist[r].entered => resp[r].xPartial = ""

C17_PartialAndFull ==
    \E r, o \in Req :
        /\ pc[r] = "done" /\ pc[o] = "done"
        /\ resp[r].status = 200 /\ resp[r].xPartial = "true"
        /\ Len(loc[r].res.entries) = TileSize - 1
        /\ resp[o].status = 200 /\ resp[o].xPartial = ""
        /\ Len(loc[o].res.entries) = TileSize

\* C18: every 200 response of the get-entries handler carries the resolver's source
\* in X-Source, "S3" when the resolution's GetObject returned the tile and "CT log"
\* when the resolution fetched it from the upstream, and ctile_requests{success,
\* s3_get} and {success, ct_log_get} count exactly the 200 responses of each source.
C18_SourceAndSuccess ==
    /\ \A r \in Req :
          (pc[r] = "done" /\ hist[r].entered /\ resp[r].status = 200)
          => /\ resp[r].xSource = loc[r].res.source
             /\ resp[r].xSource = "S3"
                   <=> (hist[loc[r].call].s3 = "present" /\ hist[loc[r].call].fetches = 0)
             /\ resp[r].xSource = "CT log"
                   <=> (hist[loc[r].call].s3 = "absent" /\ hist[loc[r].call].fetches = 1)
    /\ requestsMetric[<<"success", "s3_get">>] =
          Cardinality({r \in Req : pc[r] = "done" /\ hist[r].entered
                                   /\ resp[r].status = 200 /\ resp[r].xSource = "S3"})
    /\ requestsMetric[<<"success", "ct_log_get">>] =
          Cardinality({r \in Req : pc[r] = "done" /\ hist[r].entered
                                   /\ resp[r].status = 200 /\ resp[r].xSource = "CT log"})

C18_OneOfEach ==
    \E r, o \in Req :
        /\ pc[r] = "done" /\ resp[r].status = 200 /\ resp[r].xSource = "CT log"
        /\ pc[o] = "done" /\ resp[o].status = 200 /\ resp[o].xSource = "S3"
        /\ requestsMetric[<<"success", "s3_get">>] = 1
        /\ requestsMetric[<<"success", "ct_log_get">>] = 1

\* C19 as stated: a request whose method is not GET is answered 405 whatever its
\* path, and no GetObject, PutObject or request to the backend is issued for it.
C19_NonGetRejected ==
    \A r \in Req :
        (pc[r] # "new" /\ rq[r].method # "GET")
        => /\ pc[r] = "done"
           /\ resp[r].status = 405
           /\ hist[r] = noHist

\* C20: a GET request whose path does not end in /ct/v1/get-entries is answered at
\* once by passthroughHandler: one request is sent to the backend, for logURL
\* followed by the path; when the backend answers, its status and body are the
\* response's; no GetObject or PutObject is issued and getAndCacheTile is not entered.
C20_PassedThrough ==
    \A r \in Req :
        (pc[r] # "new" /\ rq[r].method = "GET" /\ ~HasSuffix(rq[r].path, getEntriesPath))
        => /\ pc[r] = "done"
           /\ hist[r].forwards = 1
           /\ hist[r].upURL = logURL \o rq[r].path
           /\ hist[r].upStatus # 0
                 => resp[r].status = hist[r].upStatus /\ resp[r].text = hist[r].upText
           /\ hist[r].upStatus = 0 => resp[r].status = 500
           /\ hist[r].gets = 0 /\ hist[r].puts = 0 /\ hist[r].fetches = 0
           /\ ~hist[r].entered /\ loc[r].call = 0
           /\ resp[r].xSource = "" /\ resp[r].xPartial = "" /\ resp[r].xLen = ""

C20_StatusPreserved ==
    \E r, o \in Req :
        /\ pc[r] = "done" /\ rq[r].method = "GET" /\ hist[r].forwards = 1
        /\ hist[r].upStatus = 404 /\ resp[r].status = 404 /\ resp[r].text = notFoundBody
        /\ pc[o] = "done" /\ rq[o].method = "GET" /\ hist[o].forwards = 1
        /\ hist[o].upStatus = 200 /\ resp[o].status = 200

\* C21 as stated: for every size > 0 and start >= 0, makeTile(start, size) is a tile
\* whose start is a multiple of size, whose end is its start plus size, and which
\* holds start: tile.start <= start < tile.end.
C21_TileHoldsStart ==
    (fn.op = "makeTile" /\ fn.done)
    => /\ fn.tile.size = fn.args[2]
       /\ fn.tile.start % fn.args[2] = 0
       /\ fn.tile.end = fn.tile.start + fn.args[2]
       /\ fn.tile.start <= fn.args[1] /\ fn.args[1] < fn.tile.end

\* C22: an object of the bucket is never replaced or removed, and a PutObject is
\* issued only for a key that the bucket does not hold: once a tile is stored, no
\* request of the instance issues a PutObject for its key again.
C22_StoredIsKept ==
    [][/\ \A k \in DOMAIN bucket : k \in DOMAIN bucket' /\ bucket'[k] = bucket[k]
       /\ \A r \in Req :
             hist'[r].puts > hist[r].puts => s3Key(loc[r].tile) \notin DOMAIN bucket]_vars

C22_StoredOnce ==
    \E o, r \in Req :
        /\ o \in hist[r].prior /\ hist[o].stored /\ hist[o].puts = 1
        /\ loc[o].tile = loc[r].tile
        /\ pc[r] = "done" /\ hist[r].entered
        /\ hist[r].gets = 1 /\ hist[r].puts = 0
        /\ bucket[s3Key(loc[r].tile)] = cborGzEncode(logEntries(loc[o].tile.start, TileSize))

\* C23 as stated: the URL that tile.url gives for the tile of a start, whatever the
\* start, asks the backend for a start that is a multiple of the tile size and for
\* the closed end start + size - 1, that is for exactly size entries.
C23_TileAligned ==
    (fn.op = "url" /\ fn.done)
    => /\ fn.url.base = logURL \o <<"/ct/v1/get-entries">>
       /\ fn.url.start % fn.args[2] = 0
       /\ fn.url.end = (fn.url.start + fn.args[2]) - 1
       /\ (fn.url.end - fn.url.start) + 1 = fn.args[2]

\* C24 as stated: for every query that parseQueryParams accepts (start and end decimal
\* texts of integers a and b with 0 <= a <= b <= the largest integer), the end it
\* returns is b + 1 and is greater than the start it returns, which is a.
C24_EndPlusOne ==
    (fn.op = "parseQueryParams" /\ fn.done /\ fn.parsed.err.kind = "nil")
    => /\ 0 <= fn.args[3] /\ fn.args[3] <= fn.args[4] /\ fn.args[4] <= MaxInt
       /\ fn.parsed.start = fn.args[3]
       /\ fn.parsed.end = fn.args[4] + 1
       /\ fn.parsed.end > fn.parsed.start

\* C25: when the GetObject of a resolution returns an object that decodes to a number
\* of entries other than the tile size, the resolver returns an error and no
\* entries, issues no upstream fetch and no PutObject, the object stays in the bucket
\* as it was, and every request that shares the resolution is answered 500.
C25_CorruptIsError ==
    \A r \in Req :
        (hist[r].s3 = "present" /\ hist[r].s3Len # TileSize)
        => /\ pc[r] \in {"ret", "done"}
           /\ loc[r].res.err.kind # "nil" /\ loc[r].res.entries = <<>>
           /\ hist[r].gets = 1 /\ hist[r].fetches = 0 /\ hist[r].puts = 0
           /\ s3Key(loc[r].tile) \in DOMAIN bucket
           /\ Len(cborGzDecode(bucket[s3Key(loc[r].tile)])) = hist[r].s3Len
           /\ \A w \in Req : (pc[w] = "done" /\ hist[w].entered /\ loc[w].call = r)
                                => /\ resp[w].status = 500
                                   /\ resp[w].entries = <<>>
                                   /\ resp[w].xSource = ""

C25_CorruptRead ==
    \E r, w \in Req :
        /\ r # w /\ pc[r] = "done" /\ pc[w] = "done"
        /\ hist[r].s3 = "present" /\ hist[r].s3Len = TileSize - 1
        /\ hist[w].during = {r}
        /\ resp[r].status = 500 /\ resp[w].status = 500
        /\ logLen >= TileSize

\* C26: trimForDisplay(start, end, tile) on entries returns the "internal
\* inconsistency" error and no entries exactly when start < tile.start, or
\* start >= tile.end, or end <= start, or there are more entries than tile.size; in
\* such a case it does not return the past-the-end error, even when start lies at or
\* past the end of the entries.
C26_InconsistencyFirst ==
    (fn.op = "trimForDisplay" /\ fn.done)
    => LET t == makeTile(fn.args[2], TileSize, logURL)
           n == fn.args[1]
           start == fn.args[3]
           end == fn.args[4]
           inconsistent == start < t.start \/ start >= t.end \/ end <= start \/ n > t.size
       IN  /\ inconsistent <=> (\E i \in DOMAIN fn.out.err.msg :
                                   fn.out.err.msg[i] = "internal inconsistency")
           /\ inconsistent => fn.out.entries = <<>> /\ fn.out.err.kind = "plain"
           /\ (inconsistent /\ start - t.start >= n) => fn.out.err.kind # "pastTheEnd"
           /\ ~inconsistent => fn.out.err.kind \in {"nil", "pastTheEnd"}

C26_InconsistentAndPastEnd ==
    /\ fn.op = "trimForDisplay" /\ fn.done
    /\ fn.args = <<1, 0, 1, 1>>
    /\ fn.out.err = internalInconsistency
    /\ fn.out.entries = <<>>

\* C27 as stated: ctile_requests{error, internal_inconsistency} counts every internal
\* inconsistency at least once: each resolution whose GetObject returned an object
\* that decodes to a number of entries other than the tile size, and each request
\* for which trimForDisplay returned the "internal inconsistency" error.
C27_InconsistencyCounted ==
    requestsMetric[<<"error", "internal_inconsistency">>] >=
        Cardinality({r \in Req : /\ pc[r] \in {"ret", "done"}
                                 /\ hist[r].s3 = "present" /\ hist[r].s3Len # TileSize})
        + Cardinality({r \in Req :
                          /\ pc[r] = "done" /\ hist[r].entered /\ loc[r].res.err.kind = "nil"
                          /\ trimForDisplay(loc[r].res.entries, loc[r].start, loc[r].end,
                                            loc[r].tile).err = internalInconsistency})

\* C28: when the backend answers the fetch of a resolution with status 200 and a
\* document of no entries, or of more entries than the tile size, the resolver
\* returns an error and no entries, the result is not counted or marked as a partial
\* tile, no PutObject is issued, and every request that shares the resolution is
\* answered 500 without entries.
C28_BadCountRejected ==
    /\ \A r \in Req :
          (hist[r].fetches = 1 /\ hist[r].upStatus = 200
           /\ (hist[r].upLen = 0 \/ hist[r].upLen > TileSize))
          => /\ pc[r] \in {"ret", "done"}
             /\ loc[r].res.err.kind = "plain" /\ loc[r].res.entries = <<>>
             /\ hist[r].puts = 0 /\ ~hist[r].stored /\ hist[r].put = ""
             /\ \A w \in Req : (pc[w] = "done" /\ hist[w].entered /\ loc[w].call = r)
                                  => /\ resp[w].status = 500
                                     /\ resp[w].entries = <<>>
                                     /\ resp[w].xPartial = "" /\ resp[w].xSource = ""
    /\ partialTiles = Cardinality({r \in Req : hist[r].upLen \in 1..(TileSize - 1)})

C28_EmptyAndOversized ==
    \E r, o \in Req :
        /\ pc[r] = "done" /\ hist[r].fetches = 1 /\ hist[r].upStatus = 200 /\ hist[r].upLen = 0
        /\ resp[r].status = 500
        /\ pc[o] = "done" /\ hist[o].fetches = 1 /\ hist[o].upStatus = 200
        /\ hist[o].upLen = TileSize + 1
        /\ resp[o].status = 500
        /\ bucket = <<>>

\* C29: the entries value that the callers of one call share is, after any of them
\* has trimmed it, the value that the resolver returned: the same entries in the same
\* order; and each 200 response holds trimForDisplay of the resolver's entries for
\* the request's own start and end, whatever the other requests asked for.
C29_SharedListKept ==
    /\ \A c \in Req : calls[c].done => calls[c].val = loc[c].res
    /\ \A w \in Req :
          (pc[w] = "done" /\ hist[w].entered)
          => /\ loc[w].res = loc[loc[w].call].res
             /\ resp[w].status = 200
                   => resp[w].entries =
                         trimForDisplay(loc[loc[w].call].res.entries,
                                        loc[w].start, loc[w].end, loc[w].tile).entries

C29_TwoTrimsOfOneList ==
    \E l, w \in Req :
        /\ l # w /\ pc[l] = "done" /\ pc[w] = "done" /\ loc[w].call = l
        /\ resp[l].status = 200 /\ resp[w].status = 200
        /\ Len(calls[l].val.entries) = TileSize
        /\ Len(resp[l].entries) = 1 /\ Len(resp[w].entries) = 1
        /\ resp[l].entries # resp[w].entries

\* C30: every request that has entered getAndCacheTile is in the end answered, for
\* good, and the call it was on is then done and no longer in the group: a request
\* that runs the resolution finishes it, and a request that waits for a call is
\* released; a resolution that ended by the error of its context is answered 500,
\* without entries.
C30_EventuallyAnswered ==
    /\ <>[](\A r \in Req :
               \/ pc[r] = "new"
               \/ /\ pc[r] = "done" /\ resp[r].status # 0
                  /\ hist[r].entered
                        => /\ calls[loc[r].call].done
                           /\ \A k \in DOMAIN group : group[k] # loc[r].call)
    /\ [](\A r \in Req :
             (/\ pc[r] = "done" /\ hist[r].entered
              /\ \E i \in DOMAIN loc[r].res.err.msg : loc[r].res.err.msg[i] = "context canceled")
             => resp[r].status = 500 /\ resp[r].entries = <<>>)

C30_ReleasedAfterDeadline ==
    \E l, w \in Req :
        /\ l # w /\ pc[l] = "done" /\ pc[w] = "done"
        /\ hist[w].during = {l} /\ hist[w].blocked
        /\ ctxDone[l]
        /\ resp[l].status = 500 /\ resp[w].status = 500
        /\ group = <<>>

C32_S3NeverPartial ==
    \A r \in Req :
        /\ resp[r].xSource = "S3"
              => /\ resp[r].xPartial = ""
                 /\ loc[r].res.err.kind = "nil"
                 /\ Len(loc[r].res.entries) = TileSize
                 /\ hist[loc[r].call].s3 = "present" /\ hist[loc[r].call].s3Len = TileSize
                 /\ hist[loc[r].call].fetches = 0
        /\ resp[r].xPartial = "true"
              => /\ resp[r].xSource = "CT log"
                 /\ Len(loc[r].res.entries) < TileSize
                 /\ hist[loc[r].call].fetches = 1

C32_FullFromS3BesideShort ==
    \E r \in Req :
        /\ pc[r] = "done" /\ resp[r].status = 200
        /\ resp[r].xSource = "S3" /\ resp[r].xPartial = ""
        /\ Len(loc[r].res.entries) = TileSize
        /\ \E k \in DOMAIN bucket : Len(cborGzDecode(bucket[k])) < TileSize

====
